---- MODULE Spec2Model ----
(***************************************************************************)
(* A model of src/validateoptions.js: the validation engine                *)
(* (validateOptions), the type classifier (getTypeOf), the error type      *)
(* (RequirementError) and the requirement combinators (required, optional, *)
(* either) with their helpers (findTypes, merge, union).                   *)
(*                                                                         *)
(* Spec     : one validateOptions call, one step per statement group of    *)
(*            the per-key loop body.                                       *)
(* SpecComb : the combinators applied to requirement values.               *)
(* SpecHeap : the combinators on a heap of objects with identities.        *)
(***************************************************************************)
EXTENDS Integers, Sequences, FiniteSets, TLC

VARIABLES
    \* ---- validateOptions (Spec) ----
    pc,                \* position in validateOptions
    optionKeys,        \* the own keys of `options` after `options || {}`
    requirementKeys,   \* the keys of `requirements`, in for-in order
    idx,               \* number of requirement keys the loop has taken
    key,               \* loop variable `key`
    req,               \* `req = requirements[key]`
    given,             \* what `options` holds for key: [inOpts, val]
    keyInOpts,         \* local `keyInOpts`
    optsVal,           \* local `optsVal`
    isOptional,        \* local `isOptional`
    mapThrew,          \* local `mapThrew`
    validatedOptions,  \* local `validatedOptions`, the return value
    thrown,            \* the exception the call ended with
    mapOutcome,        \* what the call of req.map did for this key
    classified,        \* the value handed to getTypeOf for this key
    okArg,             \* the value handed to req.ok for this key
    \* ---- combinators on values (SpecComb) ----
    cur,               \* the requirement (or tag list) the caller holds
    arg,               \* the argument(s) of the last combinator call
    ops,               \* the combinator calls so far, oldest first
    \* ---- combinators on a heap (SpecHeap) ----
    heap,              \* address -> object (an array or a requirement)
    snap,              \* the heap before the last call
    hcall,             \* the last call: [op, args, ret]
    hOps               \* number of calls so far

engineVars == <<pc, optionKeys, requirementKeys, idx, key, req, given,
                keyInOpts, optsVal, isOptional, mapThrew, validatedOptions,
                thrown, mapOutcome, classified, okArg>>
combVars == <<cur, arg, ops>>
heapVars == <<heap, snap, hcall, hOps>>
vars == <<engineVars, combVars, heapVars>>

(***************************************************************************)
(* Bounds                                                                  *)
(***************************************************************************)
MaxDepth == 2      \* longest chain of `.is` references before a tag list
MaxArgs == 3       \* most arguments of one either(...) call (SpecComb)
MaxOps == 2        \* most combinator calls in a row (SpecComb)
MaxHeapArgs == 2   \* most arguments of one either(...) call (SpecHeap)
MaxHeapOps == 2    \* most combinator calls in a row (SpecHeap)

(***************************************************************************)
(* JavaScript values                                                       *)
(***************************************************************************)
\* The possible return values of getTypeOf.
VALID_TYPES == <<"array", "boolean", "function", "null", "number", "object",
                 "regexp", "string", "symbol", "undefined">>

Range(s) == {s[i] : i \in 1..Len(s)}

\* Option values: undefined, null, 1337, "foo", [], {}, /x/.
Values == {"undefined", "null", "1337", "'foo'", "[]", "{}", "/x/"}

None == "<none>"

\* The host's typeof operator.
TypeOf(value) ==
    CASE value = "undefined" -> "undefined"
      [] value = "1337" -> "number"
      [] value = "'foo'" -> "string"
      [] OTHER -> "object"

\* !value
Falsy(value) == value \in {"undefined", "null"}

\* Array.isArray(value), value instanceof RegExp, for option values.
ValueIsArray(value) == value = "[]"
ValueIsRegExp(value) == value = "/x/"

getTypeOf(value) ==
    LET type == TypeOf(value) IN
    IF type = "object"
    THEN IF Falsy(value) THEN "null"
         ELSE IF ValueIsArray(value) THEN "array"
         ELSE IF ValueIsRegExp(value) THEN "regexp"
         ELSE type
    ELSE type

(***************************************************************************)
(* The value of an `is` field, or of anything handed to a combinator:      *)
(*   kind "array"     : an array of tag names, elems;                      *)
(*   kind "object"    : depth = 0, an object with no `is`;                 *)
(*                      depth = n > 0, an object whose `.is` chain         *)
(*                      reaches the array elems after n steps;             *)
(*   kind "undefined" : undefined.                                         *)
(***************************************************************************)
Arr(elems) == [kind |-> "array", depth |-> 0, elems |-> elems]
Undefined == [kind |-> "undefined", depth |-> 0, elems |-> <<>>]
PlainObject == [kind |-> "object", depth |-> 0, elems |-> <<>>]
\* {is: x}
ObjWithIs(x) ==
    [kind |-> "object",
     depth |-> IF x.kind = "array" THEN 1 ELSE x.depth + 1,
     elems |-> x.elems]

\* 'f' in x
Has(x, f) == f \in DOMAIN x

\* Array.isArray(x); a requirement record (no kind) is an object.
IsArray(x) == Has(x, "kind") /\ x.kind = "array"
Truthy(x) == ~(Has(x, "kind") /\ x.kind = "undefined")

\* x.is
DotIs(x) ==
    IF Has(x, "kind")
    THEN IF x.kind = "object" /\ x.depth > 0
         THEN IF x.depth = 1 THEN Arr(x.elems) ELSE [x EXCEPT !.depth = @ - 1]
         ELSE Undefined
    ELSE IF Has(x, "is") THEN x.is ELSE Undefined

RECURSIVE Nest(_, _)
Nest(x, n) == IF n = 0 THEN x ELSE Nest(ObjWithIs(x), n - 1)

\* types.indexOf(v), 0-based, -1 when absent.
IndexOf(s, v) ==
    IF \E i \in 1..Len(s) : s[i] = v
    THEN (CHOOSE i \in 1..Len(s) : s[i] = v /\ \A j \in 1..(i - 1) : s[j] # v) - 1
    ELSE -1

RECURSIVE Join(_, _)
Join(s, sep) ==
    IF Len(s) = 0 THEN ""
    ELSE IF Len(s) = 1 THEN s[1]
    ELSE s[1] \o sep \o Join(Tail(s), sep)

(***************************************************************************)
(* Requirements handed to validateOptions: records that hold a field only  *)
(* when the requirement declares it.                                       *)
(***************************************************************************)
TagLists ==
    { <<"string">>,
      <<"string", "undefined", "null">>,
      <<"object", "number">>,
      <<"number", "undefined">>,
      <<"number", "int">> }

IsVals == {Nest(Arr(l), d) : l \in TagLists, d \in 0..MaxDepth}

NoIs == Undefined

\* The object literal with exactly the declared fields.
Requirement(dflt, map, is, ok, msg) ==
    LET F == {f \in {"dflt", "map", "is", "ok", "msg"} :
                CASE f = "dflt" -> dflt # None
                  [] f = "map" -> map
                  [] f = "is" -> is # NoIs
                  [] f = "ok" -> ok
                  [] f = "msg" -> msg # None}
    IN [f \in F |-> CASE f = "dflt" -> dflt
                      [] f = "map" -> "function"
                      [] f = "is" -> is
                      [] f = "ok" -> "function"
                      [] f = "msg" -> msg]

Requirements ==
    {Requirement(d, m, i, o, g) :
        d \in {None, "undefined", "1337"}, m \in BOOLEAN,
        i \in {NoIs} \cup IsVals, o \in BOOLEAN, g \in {None, "foo!"}}

NoReq == Requirement(None, FALSE, NoIs, FALSE, None)


(***************************************************************************)
(* Exceptions                                                              *)
(***************************************************************************)
NoError == [name |-> "none", message |-> ""]

\* What `new RequirementError(key, requirement)` leaves to be thrown: the
\* error it constructs, or the TypeError of calling a missing `join`.
RequirementError(k, requirement) ==
    IF Has(requirement, "msg")
    THEN [name |-> "RequirementError", message |-> requirement.msg]
    ELSE IF Truthy(DotIs(requirement))
    THEN IF IsArray(requirement.is)
         THEN [name |-> "RequirementError",
               message |-> "The option \"" \o k \o "\" "
                           \o "must be one of the following types: "
                           \o Join(requirement.is.elems, ", ")]
         ELSE [name |-> "TypeError",
               message |-> "requirement.is.join is not a function"]
    ELSE [name |-> "RequirementError",
          message |-> "The option \"" \o k \o "\" is invalid."]

\* The exceptions a caller's map function may throw.
MapRequirementError ==
    [name |-> "RequirementError", message |-> "thrown by map"]
MapOtherError == [name |-> "Error", message |-> "thrown by map"]
\* throw "bar": a thrown value that is no Error object at all.
MapThrownString == [name |-> "string", message |-> "bar"]

NoOutcome == [kind |-> "none", val |-> None, err |-> NoError]
MapOutcomes ==
    {[kind |-> "return", val |-> v, err |-> NoError] : v \in Values}
    \cup {[kind |-> "throw", val |-> None, err |-> e] :
            e \in {MapRequirementError, MapOtherError, MapThrownString}}

\* A catch that discards whatever map threw.
InstanceOfNothing(err) == FALSE

\* err instanceof RequirementError
InstanceOfRequirementError(err) == err.name = "RequirementError"

(***************************************************************************)
(* validateOptions                                                         *)
(***************************************************************************)
OptionKeySets == SUBSET {"foo", "baz"}
RequirementKeySeqs == {<<>>, <<"foo">>, <<"foo", "bar">>}

\* `types` after lines 85-89.
ResolveTypes(is) ==
    IF ~IsArray(is) /\ IsArray(DotIs(is)) THEN DotIs(is) ELSE is

\* ['undefined', 'null'].every(v => !!~types.indexOf(v))
IsOptionalOf(types) ==
    \A v \in {"undefined", "null"} : IndexOf(types, v) # -1

\* A type check without the sanity check of the tag names.
NoInvalidType(types) == None

\* The first tag of types that is not in VALID_TYPES, or None.
FirstInvalidType(types) ==
    IF \E i \in 1..Len(types) : IndexOf(VALID_TYPES, types[i]) = -1
    THEN types[CHOOSE i \in 1..Len(types) :
                 /\ IndexOf(VALID_TYPES, types[i]) = -1
                 /\ \A j \in 1..(i - 1) : IndexOf(VALID_TYPES, types[j]) # -1]
    ELSE None

InternalError(type) ==
    [name |-> "Error",
     message |-> "Internal error: invalid requirement type \"" \o type \o "\"."]

\* A type check by the native typeof instead of getTypeOf.
TypeRejectedByTypeof(types, value) == IndexOf(types, TypeOf(value)) < 0

\* types.indexOf(getTypeOf(optsVal)) < 0
TypeRejected(types, value) == IndexOf(types, getTypeOf(value)) < 0

\* (!isOptional || optsVal != null): whether req.ok is called at all.
OkConsulted(optional, value) == ~optional \/ ~(value \in {"undefined", "null"})

\* An inclusion test that forgets `optsVal !== undefined`.
IncludedWhenMapped(inOpts, r, threw, value) ==
    inOpts \/ (Has(r, "map") /\ ~threw)

\* keyInOpts || (req.map && !mapThrew && optsVal !== undefined)
Included(inOpts, r, threw, value) ==
    inOpts \/ (Has(r, "map") /\ ~threw /\ value # "undefined")

\* validatedOptions[key] = optsVal
Put(obj, k, value) ==
    [x \in DOMAIN obj \cup {k} |-> IF x = k THEN value ELSE obj[x]]

EmptyObject == [x \in {} |-> None]

Throw(err) ==
    /\ pc' = "threw"
    /\ thrown' = err

\* Lines 59-70: the loop takes its next key, reads the requirement and the
\* option, and substitutes the default.
ForKey ==
    /\ pc = "loop"
    /\ idx < Len(requirementKeys)
    /\ \E r \in Requirements :
       \E v \in IF requirementKeys[idx + 1] \in optionKeys
                THEN Values ELSE {"undefined"} :
         LET k == requirementKeys[idx + 1]
             inOpts == k \in optionKeys
             val == IF inOpts THEN v ELSE "undefined"
             dflt == Has(r, "dflt") /\ val = "undefined"
         IN /\ key' = k
            /\ req' = r
            /\ given' = [inOpts |-> inOpts, val |-> val]
            /\ optsVal' = IF dflt THEN r.dflt ELSE val
            /\ keyInOpts' = IF dflt THEN TRUE ELSE inOpts
    /\ idx' = idx + 1
    /\ isOptional' = FALSE
    /\ mapThrew' = FALSE
    /\ mapOutcome' = NoOutcome
    /\ classified' = None
    /\ okArg' = None
    /\ pc' = "map"
    /\ UNCHANGED <<optionKeys, requirementKeys, validatedOptions, thrown>>

\* Lines 72-82: the transform, and the catch around it.
Map ==
    /\ pc = "map"
    /\ IF Has(req, "map")
       THEN \E o \in MapOutcomes :
              /\ mapOutcome' = o
              /\ IF o.kind = "return"
                 THEN /\ optsVal' = o.val
                      /\ pc' = "is"
                      /\ UNCHANGED <<mapThrew, thrown>>
                 ELSE IF InstanceOfRequirementError(o.err)
                 THEN /\ Throw(o.err)
                      /\ UNCHANGED <<optsVal, mapThrew>>
                 ELSE /\ mapThrew' = TRUE
                      /\ pc' = "is"
                      /\ UNCHANGED <<optsVal, thrown>>
       ELSE /\ pc' = "is"
            /\ UNCHANGED <<optsVal, mapThrew, thrown, mapOutcome>>
    /\ UNCHANGED <<optionKeys, requirementKeys, idx, key, req, given,
                   keyInOpts, isOptional, validatedOptions, classified,
                   okArg>>

\* Lines 84-105: the type check.
Is ==
    /\ pc = "is"
    /\ IF Truthy(DotIs(req)) /\ IsArray(ResolveTypes(req.is))
       THEN LET types == ResolveTypes(req.is).elems IN
            /\ isOptional' = IsOptionalOf(types)
            /\ IF FirstInvalidType(types) # None
               THEN /\ Throw(InternalError(FirstInvalidType(types)))
                    /\ UNCHANGED classified
               ELSE /\ classified' = optsVal
                    /\ IF TypeRejected(types, optsVal)
                       THEN Throw(RequirementError(key, req))
                       ELSE pc' = "ok" /\ UNCHANGED thrown
       ELSE /\ pc' = "ok"
            /\ UNCHANGED <<isOptional, classified, thrown>>
    /\ UNCHANGED <<optionKeys, requirementKeys, idx, key, req, given,
                   keyInOpts, optsVal, mapThrew, validatedOptions,
                   mapOutcome, okArg>>

\* Lines 107-109: the predicate.
Ok ==
    /\ pc = "ok"
    /\ IF Has(req, "ok") /\ OkConsulted(isOptional, optsVal)
       THEN \E result \in BOOLEAN :
              /\ okArg' = optsVal
              /\ IF ~result
                 THEN Throw(RequirementError(key, req))
                 ELSE pc' = "include" /\ UNCHANGED thrown
       ELSE /\ pc' = "include"
            /\ UNCHANGED <<okArg, thrown>>
    /\ UNCHANGED <<optionKeys, requirementKeys, idx, key, req, given,
                   keyInOpts, optsVal, isOptional, mapThrew,
                   validatedOptions, mapOutcome, classified>>

\* Lines 111-113: the key goes into the result, or not.
Include ==
    /\ pc = "include"
    /\ validatedOptions' =
         IF Included(keyInOpts, req, mapThrew, optsVal)
         THEN Put(validatedOptions, key, optsVal)
         ELSE validatedOptions
    /\ pc' = "next"
    /\ UNCHANGED <<optionKeys, requirementKeys, idx, key, req, given,
                   keyInOpts, optsVal, isOptional, mapThrew, thrown,
                   mapOutcome, classified, okArg>>

\* Line 114: the loop body ends and its block-scoped locals with it.
EndIteration ==
    /\ pc = "next"
    /\ pc' = "loop"
    /\ key' = None
    /\ req' = NoReq
    /\ given' = [inOpts |-> FALSE, val |-> "undefined"]
    /\ keyInOpts' = FALSE
    /\ optsVal' = "undefined"
    /\ isOptional' = FALSE
    /\ mapThrew' = FALSE
    /\ mapOutcome' = NoOutcome
    /\ classified' = None
    /\ okArg' = None
    /\ UNCHANGED <<optionKeys, requirementKeys, idx, validatedOptions,
                   thrown>>

\* Line 116.
Return ==
    /\ pc = "loop"
    /\ idx = Len(requirementKeys)
    /\ pc' = "returned"
    /\ UNCHANGED <<optionKeys, requirementKeys, idx, key, req, given,
                   keyInOpts, optsVal, isOptional, mapThrew,
                   validatedOptions, thrown, mapOutcome, classified, okArg>>

CombIdle ==
    /\ cur = Undefined
    /\ arg = <<>>
    /\ ops = <<>>

NoCall == [op |-> "none", args |-> <<>>, ret |-> 0, out |-> "none"]

HeapIdle ==
    /\ heap = <<>>
    /\ snap = <<>>
    /\ hcall = NoCall
    /\ hOps = 0

EngineIdle ==
    /\ pc = "idle"
    /\ optionKeys = {}
    /\ requirementKeys = <<>>
    /\ idx = 0
    /\ key = None
    /\ req = NoReq
    /\ given = [inOpts |-> FALSE, val |-> "undefined"]
    /\ keyInOpts = FALSE
    /\ optsVal = "undefined"
    /\ isOptional = FALSE
    /\ mapThrew = FALSE
    /\ validatedOptions = EmptyObject
    /\ thrown = NoError
    /\ mapOutcome = NoOutcome
    /\ classified = None
    /\ okArg = None

\* Lines 55-57: validateOptions(options, requirements) is entered; a falsy
\* `options` is replaced by {} and has no keys.
Init ==
    /\ pc = "loop"
    /\ \E falsy \in BOOLEAN :
         optionKeys \in IF falsy THEN {{}} ELSE OptionKeySets
    /\ requirementKeys \in RequirementKeySeqs
    /\ idx = 0
    /\ key = None
    /\ req = NoReq
    /\ given = [inOpts |-> FALSE, val |-> "undefined"]
    /\ keyInOpts = FALSE
    /\ optsVal = "undefined"
    /\ isOptional = FALSE
    /\ mapThrew = FALSE
    /\ validatedOptions = EmptyObject
    /\ thrown = NoError
    /\ mapOutcome = NoOutcome
    /\ classified = None
    /\ okArg = None
    /\ CombIdle
    /\ HeapIdle

Next ==
    \/ ForKey /\ UNCHANGED <<combVars, heapVars>>
    \/ Map /\ UNCHANGED <<combVars, heapVars>>
    \/ Is /\ UNCHANGED <<combVars, heapVars>>
    \/ Ok /\ UNCHANGED <<combVars, heapVars>>
    \/ Include /\ UNCHANGED <<combVars, heapVars>>
    \/ EndIteration /\ UNCHANGED <<combVars, heapVars>>
    \/ Return /\ UNCHANGED <<combVars, heapVars>>

Spec == Init /\ [][Next]_vars


(***************************************************************************)
(* The exported requirements and the combinators                           *)
(***************************************************************************)
string == [is |-> Arr(<<"string", "undefined", "null">>)]
number == [is |-> Arr(<<"number", "undefined", "null">>)]
boolean == [is |-> Arr(<<"boolean", "undefined", "null">>)]
object == [is |-> Arr(<<"object", "undefined", "null">>)]
array == [is |-> Arr(<<"array", "undefined", "null">>)]

\* What a call leaves when it throws instead of returning.
Exception(name) == [kind |-> "exception", name |-> name]
Threw(x) == Has(x, "kind") /\ x.kind = "exception"

isTruthyType(type) == ~(type = "undefined" \/ type = "null")

\* while (!Array.isArray(v) && v.is) v = v.is; return v;
RECURSIVE findTypes(_)
findTypes(v) ==
    IF ~IsArray(v) /\ Truthy(DotIs(v)) THEN findTypes(DotIs(v)) ELSE v

\* Object.defineProperties(source, descriptor) for one properties object:
\* its own properties override those of source.
Assign(source, props) ==
    [f \in DOMAIN source \cup DOMAIN props |->
        IF f \in DOMAIN props THEN props[f] ELSE source[f]]

RECURSIVE merge(_, _)
merge(source, properties) ==
    IF Len(properties) = 0 THEN source
    ELSE merge(Assign(source, Head(properties)), Tail(properties))

\* combined.reduce(...): each distinct item, in order of first occurrence.
RECURSIVE Reduce(_, _)
Reduce(items, result) ==
    IF Len(items) = 0 THEN result
    ELSE Reduce(Tail(items),
                IF IndexOf(result, Head(items)) = -1
                THEN Append(result, Head(items)) ELSE result)

\* What Array.prototype.concat appends for `this` or for one argument.
Spread(x) == IF IsArray(x) THEN x.elems ELSE <<"[object Object]">>

\* The elements of an array-like handed to Function.prototype.apply.
ApplyArgs(x) == IF IsArray(x) THEN x.elems ELSE <<>>

\* [].concat.apply(...arrays): the first array is `this`, the second is the
\* argument list, and apply takes no more.
ConcatApply(arrays) ==
    Spread(arrays[1])
    \o (IF Len(arrays) >= 2 THEN ApplyArgs(arrays[2]) ELSE <<>>)

union(arrays) ==
    IF Len(arrays) = 0
    THEN Exception("TypeError")
    ELSE Arr(Reduce(ConcatApply(arrays), <<>>))

required(r) ==
    LET found == findTypes(r)
        source == IF Truthy(found) THEN found ELSE Arr(VALID_TYPES)
    IN IF IsArray(source)
       THEN merge(EmptyObject,
                  <<r, [is |-> Arr(SelectSeq(source.elems, isTruthyType))]>>)
       ELSE Exception("TypeError")

\* optional without the filter before the concat.
optionalUnfiltered(r) ==
    LET r1 == merge([is |-> Arr(<<>>)], <<r>>)
    IN [r1 EXCEPT !.is = Arr(findTypes(r1).elems \o <<"undefined", "null">>)]

optional(r) ==
    LET r1 == merge([is |-> Arr(<<>>)], <<r>>)
        found == findTypes(r1)
    IN IF IsArray(found)
       THEN [r1 EXCEPT !.is = Arr(SelectSeq(found.elems, isTruthyType)
                                   \o <<"undefined", "null">>)]
       ELSE Exception("TypeError")

either(types) == union([i \in 1..Len(types) |-> findTypes(types[i])])

\* The object literal {is: x} for x a tag list or a requirement.
RefTo(x) ==
    [is |-> IF Has(x, "kind") THEN x ELSE ObjWithIs(x.is)]

(***************************************************************************)
(* SpecComb: a caller applies the combinators to requirements              *)
(***************************************************************************)
\* The requirements the caller starts from.
BaseRequirements ==
    { string, number,
      [ok |-> "function"],
      [is |-> Arr(<<"object", "number">>), msg |-> "foo!"],
      [is |-> Arr(<<"undefined", "string", "null", "string">>), ok |-> "function"],
      RefTo(string),
      RefTo(RefTo(number)) }

\* What the caller may hand to either: requirements and raw tag lists.
EitherPool == {string, RefTo(number), Arr(<<"object", "number">>)}

RECURSIVE SeqsUpTo(_, _)
SeqsUpTo(S, n) ==
    IF n = 0 THEN {<<>>}
    ELSE LET shorter == SeqsUpTo(S, n - 1)
         IN shorter \cup {Append(q, x) : q \in {t \in shorter : Len(t) = n - 1}, x \in S}

\* The argument lists of either that the caller builds from the pool.
EitherArgLists == SeqsUpTo(EitherPool, MaxArgs)

IsRequirement(x) == ~Has(x, "kind")

CanCall == Len(ops) < MaxOps /\ ~Threw(cur)

CallRequired ==
    /\ CanCall /\ IsRequirement(cur)
    /\ arg' = <<cur>>
    /\ cur' = required(cur)
    /\ ops' = Append(ops, "required")

CallOptional ==
    /\ CanCall /\ IsRequirement(cur)
    /\ arg' = <<cur>>
    /\ cur' = optional(cur)
    /\ ops' = Append(ops, "optional")

CallEither ==
    /\ CanCall
    /\ \E rest \in EitherArgLists, first \in BOOLEAN :
         LET types == IF first /\ Len(rest) < MaxArgs
                      THEN <<cur>> \o rest ELSE rest
         IN /\ arg' = types
            /\ cur' = either(types)
    /\ ops' = Append(ops, "either")

\* The caller writes {is: cur}, as in {is: either(string, number)}.
MakeRef ==
    /\ CanCall
    /\ IsArray(cur) \/ Has(cur, "is")
    /\ arg' = <<cur>>
    /\ cur' = RefTo(cur)
    /\ ops' = Append(ops, "ref")

InitComb ==
    /\ EngineIdle
    /\ HeapIdle
    /\ cur \in BaseRequirements
    /\ arg = <<>>
    /\ ops = <<>>

NextComb ==
    \/ CallRequired /\ UNCHANGED <<engineVars, heapVars>>
    \/ CallOptional /\ UNCHANGED <<engineVars, heapVars>>
    \/ CallEither /\ UNCHANGED <<engineVars, heapVars>>
    \/ MakeRef /\ UNCHANGED <<engineVars, heapVars>>

SpecComb == InitComb /\ [][NextComb]_vars

(***************************************************************************)
(* SpecHeap: the combinators on objects with identities.  A cell is an     *)
(* array of tags, or an object whose `is` is an address (0: no `is`).      *)
(***************************************************************************)
ArrayCell(elems) == [kind |-> "array", elems |-> elems, is |-> 0]
ObjectCell(is) == [kind |-> "object", elems |-> <<>>, is |-> is]

\* The module's exports (an object and its array each), then two
\* requirements of the caller: {ok: f} and {is: string}.
InitHeap ==
    << ObjectCell(2), ArrayCell(<<"string", "undefined", "null">>),
       ObjectCell(4), ArrayCell(<<"number", "undefined", "null">>),
       ObjectCell(6), ArrayCell(<<"boolean", "undefined", "null">>),
       ObjectCell(8), ArrayCell(<<"object", "undefined", "null">>),
       ObjectCell(10), ArrayCell(<<"array", "undefined", "null">>),
       ObjectCell(0),
       ObjectCell(1) >>

\* The addresses the caller hands to the calls: string, {ok: f}, {is: string}.
HeapPool == {1, 11, 12}

Result(h, ret) == [heap |-> h, ret |-> ret]

RECURSIVE hFindTypes(_, _)
hFindTypes(h, a) ==
    IF h[a].kind # "array" /\ h[a].is # 0 THEN hFindTypes(h, h[a].is) ELSE a

\* merge(source, ...properties) where each properties object is given by
\* its own `is` (0: it has none): source is written in place.
RECURSIVE hMerge(_, _, _)
hMerge(h, source, properties) ==
    IF properties = <<>> THEN h
    ELSE hMerge(IF Head(properties) # 0
                THEN [h EXCEPT ![source].is = Head(properties)] ELSE h,
                source, Tail(properties))

\* The own `is` property of the object at a.
OwnIs(h, a) == IF h[a].kind = "object" THEN h[a].is ELSE 0

\* A required that merges into its argument: merge(req, {is: types}).
hRequiredInPlace(h, a) ==
    LET found == hFindTypes(h, a) IN
    IF h[found].kind = "array" /\ h[a].kind = "object"
    THEN LET h1 == Append(h, ArrayCell(SelectSeq(h[found].elems, isTruthyType)))
         IN Result(hMerge(h1, a, <<Len(h1)>>), a)
    ELSE Result(h, 0)

\* required(req): the filter allocates the list, merge fills a new object.
hRequired(h, a) ==
    LET found == hFindTypes(h, a) IN
    IF h[found].kind = "array"
    THEN LET h1 == Append(h, ArrayCell(SelectSeq(h[found].elems, isTruthyType)))
             types == Len(h1)
             h2 == Append(h1, ObjectCell(0))
             source == Len(h2)
         IN Result(hMerge(h2, source, <<OwnIs(h, a), types>>), source)
    ELSE Result(h, 0)

\* optional(req): the literal {is: []} is the merge target; the filter and
\* the concat each allocate a list, and req.is is set to the last.
hOptional(h, a) ==
    LET h1 == Append(h, ArrayCell(<<>>))
        h2 == Append(h1, ObjectCell(Len(h1)))
        r == Len(h2)
        h3 == hMerge(h2, r, <<OwnIs(h, a)>>)
        found == hFindTypes(h3, r)
    IN IF h3[found].kind = "array"
       THEN LET h4 == Append(h3, ArrayCell(SelectSeq(h3[found].elems, isTruthyType)))
                h5 == Append(h4, ArrayCell(h4[Len(h4)].elems \o <<"undefined", "null">>))
            IN Result([h5 EXCEPT ![r].is = Len(h5)], r)
       ELSE Result(h3, 0)

\* The array or plain object at an address, as a value.
CellValue(h, a) == IF h[a].kind = "array" THEN Arr(h[a].elems) ELSE PlainObject

\* either(...types): concat allocates the combined list, reduce the result.
hEither(h, types) ==
    IF Len(types) = 0
    THEN Result(h, 0)
    ELSE LET found == [i \in 1..Len(types) |-> CellValue(h, hFindTypes(h, types[i]))]
             h1 == Append(h, ArrayCell(ConcatApply(found)))
             h2 == Append(h1, ArrayCell(Reduce(h1[Len(h1)].elems, <<>>)))
         IN Result(h2, Len(h2))

\* What validateOptions({}, {foo: req}) ends with for the requirement at a,
\* which declares nothing but its `is`: it reads the heap and writes nothing.
hValidate(h, a) ==
    LET is == h[a].is
        types == IF is # 0 /\ h[is].kind # "array" /\ h[is].is # 0
                    /\ h[h[is].is].kind = "array"
                 THEN h[is].is ELSE is
    IN IF is # 0 /\ h[types].kind = "array"
       THEN IF FirstInvalidType(h[types].elems) # None THEN "Error"
            ELSE IF TypeRejected(h[types].elems, "undefined")
            THEN IF h[is].kind = "array" THEN "RequirementError" ELSE "TypeError"
            ELSE "returned"
       ELSE "returned"

\* What the caller may hand to a call: the pool, and the last result.
Operands == HeapPool \cup (IF hcall.ret # 0 THEN {hcall.ret} ELSE {})

CanCallHeap == hOps < MaxHeapOps

Called(name, args, result) ==
    /\ snap' = heap
    /\ heap' = result.heap
    /\ hcall' = [op |-> name, args |-> args, ret |-> result.ret,
                 out |-> IF result.ret = 0 THEN "TypeError" ELSE "returned"]
    /\ hOps' = hOps + 1

HeapRequired ==
    /\ CanCallHeap
    /\ \E a \in Operands : Called("required", <<a>>, hRequired(heap, a))

HeapOptional ==
    /\ CanCallHeap
    /\ \E a \in Operands : Called("optional", <<a>>, hOptional(heap, a))

HeapEither ==
    /\ CanCallHeap
    /\ \E types \in SeqsUpTo(Operands, MaxHeapArgs) :
         Called("either", types, hEither(heap, types))

\* The caller writes {is: x}.
HeapMakeRef ==
    /\ CanCallHeap
    /\ \E a \in Operands :
         Called("ref", <<a>>, Result(Append(heap, ObjectCell(a)), Len(heap) + 1))

HeapValidate ==
    /\ CanCallHeap
    /\ \E a \in {x \in Operands : heap[x].kind = "object"} :
         /\ snap' = heap
         /\ heap' = heap
         /\ hcall' = [op |-> "validateOptions", args |-> <<a>>, ret |-> 0,
                      out |-> hValidate(heap, a)]
         /\ hOps' = hOps + 1

InitOfHeap ==
    /\ EngineIdle
    /\ CombIdle
    /\ heap = InitHeap
    /\ snap = InitHeap
    /\ hcall = NoCall
    /\ hOps = 0

NextHeap ==
    \/ HeapRequired /\ UNCHANGED <<engineVars, combVars>>
    \/ HeapOptional /\ UNCHANGED <<engineVars, combVars>>
    \/ HeapEither /\ UNCHANGED <<engineVars, combVars>>
    \/ HeapMakeRef /\ UNCHANGED <<engineVars, combVars>>
    \/ HeapValidate /\ UNCHANGED <<engineVars, combVars>>

SpecHeap == InitOfHeap /\ [][NextHeap]_vars

(***************************************************************************)
(* Properties of validateOptions                                           *)
(***************************************************************************)
\* The value before the transform: the option value, or the default when
\* the option value is undefined and a default is declared.
PreTransform ==
    IF Has(req, "dflt") /\ given.val = "undefined" THEN req.dflt ELSE given.val

\* The value after the transform: what map returned, else the value before.
PostTransform ==
    IF mapOutcome.kind = "return" THEN mapOutcome.val ELSE PreTransform

MapThrewRequirementError ==
    mapOutcome.kind = "throw" /\ mapOutcome.err.name = "RequirementError"
MapThrewOther ==
    mapOutcome.kind = "throw" /\ mapOutcome.err.name # "RequirementError"

\* The requirement declares its accepted types as a tag list, or by
\* referencing a requirement that exposes a tag list.
DeclaresTypes(r) ==
    Has(r, "is") /\ (r.is.kind = "array" \/ (r.is.kind = "object" /\ r.is.depth = 1))
AcceptedTypes(r) == r.is.elems
AcceptedSet(r) == Range(AcceptedTypes(r))
ValidTags == Range(VALID_TYPES)

TakenKeys == {requirementKeys[i] : i \in 1..idx}

\* The type check of the current key has been reached.
ReachedTypeCheck ==
    \/ pc \in {"ok", "include", "next"}
    \/ pc = "threw" /\ ~MapThrewRequirementError

\* The predicate step of the current key has been reached.
ReachedPredicate ==
    \/ pc \in {"include", "next"}
    \/ pc = "threw" /\ okArg # None

KeyIncludedAsClaimed ==
    /\ (key \in DOMAIN validatedOptions) <=>
          \/ given.inOpts
          \/ Has(req, "dflt") /\ given.val = "undefined"
          \/ Has(req, "map") /\ mapOutcome.kind = "return"
                             /\ mapOutcome.val # "undefined"
    /\ key \in DOMAIN validatedOptions =>
          validatedOptions[key] = PostTransform

C4_TypeMismatchRaises ==
    (/\ ReachedTypeCheck
     /\ DeclaresTypes(req)
     /\ AcceptedSet(req) \subseteq ValidTags
     /\ getTypeOf(PostTransform) \notin AcceptedSet(req))
    => /\ pc = "threw"
       /\ okArg = None
       /\ thrown.name = "RequirementError"
       /\ ~Has(req, "msg") =>
             thrown.message = "The option \"" \o key
                              \o "\" must be one of the following types: "
                              \o Join(AcceptedTypes(req), ", ")

\* C8: once the type check is reached with a tag outside the vocabulary in
\* the resolved list, the call raises the internal error, which is no
\* RequirementError, whatever the value is.
C8_InvalidTagRaisesInternal ==
    (/\ ReachedTypeCheck
     /\ DeclaresTypes(req)
     /\ ~(AcceptedSet(req) \subseteq ValidTags))
    => /\ pc = "threw"
       /\ thrown.name = "Error"
       /\ thrown.name # "RequirementError"
       /\ thrown # mapOutcome.err
       /\ classified = None /\ okArg = None

\* The internal error is raised although the value's tag is one of the
\* valid tags of the list.
C8_Witness ==
    /\ pc = "threw"
    /\ thrown.name = "Error"
    /\ DeclaresTypes(req)
    /\ getTypeOf(optsVal) \in AcceptedSet(req)
    /\ ~(AcceptedSet(req) \subseteq ValidTags)

\* The predicate is exempted: the accepted set holds both "undefined" and
\* "null" and the post-transform value is null or undefined.
PredicateExempted ==
    /\ DeclaresTypes(req)
    /\ {"undefined", "null"} \subseteq AcceptedSet(req)
    /\ PostTransform \in {"undefined", "null"}

\* The part of C9 about when the predicate is called: skipped exactly when
\* exempted, and called on the post-transform value otherwise.
C9_SkippedExactlyWhenExempted ==
    (ReachedPredicate /\ Has(req, "ok")) =>
       /\ (okArg = None) <=> PredicateExempted
       /\ okArg # None => okArg = PostTransform

\* C9: the predicate is skipped exactly when exempted; otherwise it is
\* called on the post-transform value and a false result raises a
\* RequirementError for the key.
C9_PredicateFalseRaises ==
    /\ C9_SkippedExactlyWhenExempted
    /\ (pc = "threw" /\ okArg # None) => thrown.name = "RequirementError"


(***************************************************************************)
(* Properties of the combinators                                           *)
(***************************************************************************)
\* The tag list a requirement (or raw tag list) resolves to, following its
\* `is` references to the end.
TagsOf(x) ==
    IF Has(x, "kind")
    THEN x.elems
    ELSE IF Has(x, "is") THEN x.is.elems ELSE <<>>

\* The requirement resolves to a tag list at all.
HasTags(x) == Has(x, "kind") \/ Has(x, "is")

\* s without "undefined" and "null", order kept.
RECURSIVE Stripped(_)
Stripped(s) ==
    IF s = <<>> THEN <<>>
    ELSE IF Head(s) \in {"undefined", "null"} THEN Stripped(Tail(s))
    ELSE <<Head(s)>> \o Stripped(Tail(s))

\* The tags of all the lists, each once, in order of first occurrence.
RECURSIVE FirstOccurrences(_, _)
FirstOccurrences(s, seen) ==
    IF s = <<>> THEN <<>>
    ELSE IF Head(s) \in seen THEN FirstOccurrences(Tail(s), seen)
    ELSE <<Head(s)>> \o FirstOccurrences(Tail(s), seen \cup {Head(s)})

RECURSIVE Flatten(_)
Flatten(lists) ==
    IF lists = <<>> THEN <<>> ELSE TagsOf(Head(lists)) \o Flatten(Tail(lists))

LastOp == IF ops = <<>> THEN "none" ELSE ops[Len(ops)]

\* C5: either of one, two, three or more arguments returns the union of the
\* tag lists of all of them, without duplicates, in order of first
\* occurrence, so every tag an argument accepts is accepted.
C5_EitherIsUnionOfAll ==
    (/\ LastOp = "either" /\ Len(arg) >= 1
     /\ \A i \in 1..Len(arg) : HasTags(arg[i])) =>
       /\ IsArray(cur)
       /\ cur.elems = FirstOccurrences(Flatten(arg), {})
       /\ \A i \in 1..Len(arg) : Range(TagsOf(arg[i])) \subseteq Range(cur.elems)

\* The same for calls of at most two arguments.
C5_EitherOfTwoIsUnion ==
    (/\ LastOp = "either" /\ Len(arg) \in {1, 2}
     /\ \A i \in 1..Len(arg) : HasTags(arg[i])) =>
       /\ IsArray(cur)
       /\ cur.elems = FirstOccurrences(Flatten(arg), {})

\* C6: required(r) returns a requirement whose tag list is r's resolved
\* list, or the whole vocabulary when r declares none, without "undefined"
\* and "null", so that an absent key is rejected.
C6_RequiredStrips ==
    LastOp = "required" =>
       /\ ~Threw(cur)
       /\ IsArray(DotIs(cur))
       /\ cur.is.elems = Stripped(IF HasTags(arg[1]) THEN TagsOf(arg[1])
                                  ELSE VALID_TYPES)
       /\ TypeRejected(cur.is.elems, "undefined")

\* The same for requirements that declare a type set.
C6_RequiredOfDeclaredStrips ==
    (LastOp = "required" /\ HasTags(arg[1])) =>
       /\ ~Threw(cur)
       /\ IsArray(DotIs(cur))
       /\ cur.is.elems = Stripped(TagsOf(arg[1]))
       /\ TypeRejected(cur.is.elems, "undefined")

\* C7: optional(r) holds r's tags other than "undefined" and "null" in
\* their order, then "undefined" and "null" once each; applied to its own
\* result it returns the same tag list.
C7_OptionalIdempotent ==
    /\ LastOp = "optional" =>
          /\ ~Threw(cur)
          /\ IsArray(DotIs(cur))
          /\ cur.is.elems = Stripped(TagsOf(arg[1])) \o <<"undefined", "null">>
    /\ (Len(ops) >= 2 /\ ops[Len(ops)] = "optional"
                      /\ ops[Len(ops) - 1] = "optional") =>
          cur.is = arg[1].is

\* optional is applied to the result of optional, of a requirement that
\* held "undefined" and "null" between its other tags.
C7_Witness ==
    /\ ops = <<"optional", "optional">>
    /\ cur.is.elems = <<"string", "string", "undefined", "null">>
    /\ Has(cur, "ok")


\* The addresses whose `is` is the list at t.
Holders(t) == {b \in 1..Len(heap) : heap[b].kind = "object" /\ heap[b].is = t}

\* C10: no call changes an object or a list that existed before it, so the
\* exported requirements and every argument keep their tag lists; the list
\* of a combinator result is allocated by the call and held by nothing else.
C10_NothingMutatedListsFresh ==
    /\ \A a \in 1..Len(InitHeap) : heap # <<>> => heap[a] = InitHeap[a]
    /\ \A a \in 1..Len(snap) : heap[a] = snap[a]
    /\ (hcall.op \in {"required", "optional"} /\ hcall.ret # 0) =>
          /\ hcall.ret > Len(snap)
          /\ heap[hcall.ret].kind = "object"
          /\ heap[hcall.ret].is > Len(snap)
          /\ heap[heap[hcall.ret].is].kind = "array"
          /\ Holders(heap[hcall.ret].is) = {hcall.ret}
    /\ (hcall.op = "either" /\ hcall.ret # 0) =>
          /\ hcall.ret > Len(snap)
          /\ heap[hcall.ret].kind = "array"
          /\ Holders(hcall.ret) = {}
    /\ hcall.op = "validateOptions" => heap = snap

\* required is applied to the result of optional(string): a second result
\* with a list of its own, while string keeps its list.
C10_Witness ==
    /\ hOps = 2
    /\ hcall.op = "required"
    /\ hcall.ret # 0
    /\ hcall.args[1] > Len(InitHeap)
    /\ heap[heap[hcall.ret].is].elems = <<"string">>
    /\ heap[heap[hcall.args[1]].is].elems = <<"string", "undefined", "null">>
    /\ heap[2].elems = <<"string", "undefined", "null">>

====
